---- MODULE Spec2Model ----
(***************************************************************************)
(* Model of ecram01/ganttmaster: the task store (gantt_data.py), the       *)
(* dependency resolver (resolve_dependencies) and the Streamlit flow of    *)
(* app.py that creates, edits and renders a task list.                     *)
(*                                                                         *)
(* Dates are day ordinals (integers); date + timedelta(days=d) is integer  *)
(* addition.  Strings that the code formats, strips or compares (task ids, *)
(* names, dependency references) are sequences of one-character strings.   *)
(***************************************************************************)
EXTENDS Integers, Sequences, FiniteSets, TLC

VARIABLES
    input,      \* the list handed to resolve_dependencies, as it was at call time
    tasks,      \* the same list, mutated in place by the resolver
    pass,       \* iterations of the outer for loop executed so far
    changed,    \* the resolver's `changed` flag of the last executed pass
    pc,         \* "start" | "loop" | "done"
    count,      \* the task_count create_project is called with, -1 when it is not
    today,      \* what date.today() returns
    \* app.py: st.session_state and what the page shows
    session_tasks,  \* st.session_state.tasks
    edited_df,      \* st.session_state.edited_df (<<>> while it is None)
    show_chart,     \* st.session_state.show_chart
    chart,          \* the list build_chart drew in the last script run (<<>>: none)
    edits,          \* cell edits made so far
    \* a caller converting between task lists and tables
    origin,     \* "tasks": the caller holds a task list; "raw": a table; "none"
    source,     \* the caller's task list
    table,      \* the table given to df_to_tasks
    outcome,    \* what df_to_tasks did: the list it returned or the exception
    phase       \* "source" | "table" | "converted" | "idle"

resolver_vars == <<input, tasks, pass, changed, pc, count>>
app_vars == <<session_tasks, edited_df, show_chart, chart, edits>>
tab_vars == <<origin, source, table, outcome, phase>>
vars == <<resolver_vars, today, app_vars, tab_vars>>

-----------------------------------------------------------------------------
(* Bounds of the model *)

MaxTasks == 3       \* longest list handed to the resolver
MaxCount == 4       \* largest task_count given to create_project
MaxRows == 2        \* longest list or table converted
MaxEdits == 2       \* cell edits made in the task editor
MaxEditRow == 2     \* rows of the editor that are edited

(* Sample values the inputs are drawn from *)
Spans == {<<0, 0>>, <<0, 1>>, <<1, 1>>}     \* <<start_date, duration>> of a task
Todays == {0, 1}                            \* date.today() at creation

-----------------------------------------------------------------------------
(* config.py *)

DEFAULT_DURATION_DAYS == 10
DEFAULT_START_OFFSET_DAYS == 5
DEFAULT_COLOUR == "Dark Blue"
\* the task_count of each entry of PROJECT_COMPLEXITIES
PROJECT_COMPLEXITIES == {3, 5, 10, 15, 20}

-----------------------------------------------------------------------------
(* String helpers: str.strip() and the f-string formats *)

IsSpace(c) == c = " "

RECURSIVE LStrip(_)
LStrip(s) ==
    IF s = <<>> THEN <<>>
    ELSE IF IsSpace(Head(s)) THEN LStrip(Tail(s)) ELSE s

RECURSIVE RStrip(_)
RStrip(s) ==
    IF s = <<>> THEN <<>>
    ELSE IF IsSpace(s[Len(s)]) THEN RStrip(SubSeq(s, 1, Len(s) - 1)) ELSE s

Strip(s) == RStrip(LStrip(s))

Digit(d) == CASE d = 0 -> "0" [] d = 1 -> "1" [] d = 2 -> "2" [] d = 3 -> "3"
              [] d = 4 -> "4" [] d = 5 -> "5" [] d = 6 -> "6" [] d = 7 -> "7"
              [] d = 8 -> "8" [] d = 9 -> "9"

\* str(i) for i >= 0
RECURSIVE Decimal(_)
Decimal(i) == IF i < 10 THEN <<Digit(i)>> ELSE Decimal(i \div 10) \o <<Digit(i % 10)>>

\* f"{i:03d}": zero-padded to at least three digits
RECURSIVE ZeroPad(_, _)
ZeroPad(s, width) == IF Len(s) >= width THEN s ELSE ZeroPad(<<"0">> \o s, width)

FormatId(index) == <<"T", "-">> \o ZeroPad(Decimal(index), 3)
FormatName(index) == <<"T", "a", "s", "k", " ">> \o Decimal(index)

-----------------------------------------------------------------------------
(* gantt_data.py: Task, make_default_task, create_project *)

\* the end_date both creation and resolution derive from (start, duration)
EndFor(start, duration) == IF duration = 0 THEN start ELSE start + duration

Task(id, name, duration, start, end, colour, dependency) ==
    [task_id |-> id, name |-> name, duration |-> duration, start_date |-> start,
     end_date |-> end, colour |-> colour, dependency |-> dependency]

make_default_task(index, now) ==
    LET start == now + DEFAULT_START_OFFSET_DAYS
        end   == start + DEFAULT_DURATION_DAYS
    IN  Task(FormatId(index), FormatName(index), DEFAULT_DURATION_DAYS,
             start, end, DEFAULT_COLOUR, <<>>)

\* faulty variant: the index is not shifted to start at 1
create_project_from_zero(task_count, now) ==
    [i \in 1..task_count |-> make_default_task(i - 1, now)]

\* range(task_count) is empty for task_count <= 0
create_project(task_count, now) ==
    [i \in 1..task_count |-> make_default_task(i, now)]

-----------------------------------------------------------------------------
(* gantt_data.py: resolve_dependencies *)

\* id_to_task = {t.task_id: t for t in tasks}: a later task replaces an earlier
\* one with the same id.  Tasks are named by their index in the list.
HasId(ts, id) == \E j \in 1..Len(ts) : ts[j].task_id = id

id_to_task(ts, id) ==
    CHOOSE j \in 1..Len(ts) :
        /\ ts[j].task_id = id
        /\ \A k \in 1..Len(ts) : ts[k].task_id = id => k <= j

\* faulty variant: the reference is looked up as typed
dep_id_unstripped(task) == task.dependency

\* dep_id = task.dependency.strip() if task.dependency else ""
dep_id(task) == IF task.dependency # <<>> THEN Strip(task.dependency) ELSE <<>>

\* faulty variant: start_date is moved and end_date left behind
visit_task_keep_end(ts, i) ==
    LET task == ts[i]
        d    == dep_id(task)
    IN  IF d # <<>> /\ HasId(ts, d)
        THEN LET parent    == ts[id_to_task(ts, d)]
                 new_start == parent.end_date
             IN  IF new_start # task.start_date
                 THEN [tasks   |-> [ts EXCEPT ![i].start_date = new_start],
                       changed |-> TRUE]
                 ELSE [tasks |-> ts, changed |-> FALSE]
        ELSE [tasks |-> ts, changed |-> FALSE]

\* faulty variant: an unknown reference falls back to the first task
visit_task_default_parent(ts, i) ==
    LET task == ts[i]
        d    == dep_id(task)
    IN  IF d # <<>>
        THEN LET parent    == IF HasId(ts, d) THEN ts[id_to_task(ts, d)] ELSE ts[1]
                 new_start == parent.end_date
             IN  IF new_start # task.start_date
                 THEN [tasks   |-> [ts EXCEPT ![i].start_date = new_start,
                                              ![i].end_date =
                                                  EndFor(new_start, task.duration)],
                       changed |-> TRUE]
                 ELSE [tasks |-> ts, changed |-> FALSE]
        ELSE [tasks |-> ts, changed |-> FALSE]

\* faulty variant: the moved task ends where it starts, whatever its duration
visit_task_no_duration(ts, i) ==
    LET task == ts[i]
        d    == dep_id(task)
    IN  IF d # <<>> /\ HasId(ts, d)
        THEN LET parent    == ts[id_to_task(ts, d)]
                 new_start == parent.end_date
             IN  IF new_start # task.start_date
                 THEN [tasks   |-> [ts EXCEPT ![i].start_date = new_start,
                                              ![i].end_date = new_start],
                       changed |-> TRUE]
                 ELSE [tasks |-> ts, changed |-> FALSE]
        ELSE [tasks |-> ts, changed |-> FALSE]

\* faulty variant: the stripped reference is written back to the task
visit_task_store_stripped(ts, i) ==
    LET task == ts[i]
        d    == dep_id(task)
    IN  IF d # <<>> /\ HasId(ts, d)
        THEN LET parent    == ts[id_to_task(ts, d)]
                 new_start == parent.end_date
             IN  IF new_start # task.start_date
                 THEN [tasks   |-> [ts EXCEPT ![i].start_date = new_start,
                                              ![i].end_date =
                                                  EndFor(new_start, task.duration),
                                              ![i].dependency = d],
                       changed |-> TRUE]
                 ELSE [tasks |-> ts, changed |-> FALSE]
        ELSE [tasks |-> ts, changed |-> FALSE]

\* the body of `for task in tasks` for the task at index i
visit_task(ts, i) ==
    LET task == ts[i]
        d    == dep_id(task)
    IN  IF d # <<>> /\ HasId(ts, d)
        THEN LET parent    == ts[id_to_task(ts, d)]
                 new_start == parent.end_date
             IN  IF new_start # task.start_date
                 THEN [tasks   |-> [ts EXCEPT ![i].start_date = new_start,
                                              ![i].end_date =
                                                  EndFor(new_start, task.duration)],
                       changed |-> TRUE]
                 ELSE [tasks |-> ts, changed |-> FALSE]
        ELSE [tasks |-> ts, changed |-> FALSE]

\* faulty variant: `changed` is overwritten by every task visited
RECURSIVE pass_from_last_flag(_, _, _)
pass_from_last_flag(ts, i, ch) ==
    IF i > Len(ts) THEN [tasks |-> ts, changed |-> ch]
    ELSE LET r == visit_task(ts, i)
         IN  pass_from_last_flag(r.tasks, i + 1, r.changed)

\* faulty variant: the tasks of a pass are visited from the last to the first
RECURSIVE pass_from_reversed(_, _, _)
pass_from_reversed(ts, i, ch) ==
    IF i > Len(ts) THEN [tasks |-> ts, changed |-> ch]
    ELSE LET r == visit_task(ts, Len(ts) + 1 - i)
         IN  pass_from_reversed(r.tasks, i + 1, ch \/ r.changed)

\* one pass: the inner for loop, each task seeing the updates made before it
RECURSIVE pass_from(_, _, _)
pass_from(ts, i, ch) ==
    IF i > Len(ts) THEN [tasks |-> ts, changed |-> ch]
    ELSE LET r == visit_task(ts, i)
         IN  pass_from(r.tasks, i + 1, ch \/ r.changed)

run_pass(ts) == pass_from(ts, 1, FALSE)

\* faulty variants: a single pass; one pass too many
pass_limit_one(ts) == IF Len(ts) = 0 THEN 0 ELSE 1
pass_limit_plus_one(ts) == Len(ts) + 1

\* the number of passes the outer loop may execute: range(len(tasks))
pass_limit(ts) == Len(ts)

\* the whole function: passes until one is stable or the range is exhausted
RECURSIVE resolve_from(_, _)
resolve_from(ts, done) ==
    IF done >= pass_limit(ts) THEN ts
    ELSE LET r == run_pass(ts)
         IN  IF r.changed THEN resolve_from(r.tasks, done + 1) ELSE r.tasks

resolve_dependencies(ts) == resolve_from(ts, 0)

-----------------------------------------------------------------------------
(* gantt_data.py: tasks_to_df, df_to_tasks.  A table is a sequence of rows; *)
(* a cell is [kind, v]: kind says what Python value the cell holds.         *)
(*   "str" text    "none" None    "int" integer    "float" v tenths         *)
(*   "date" datetime.date, day v    "datetime" Timestamp, hour v            *)

Cell(kind, v) == [kind |-> kind, v |-> v]
NoOutcome == [status |-> "none", tasks |-> <<>>, error |-> "", row |-> 0]
HoursPerDay == 24

tasks_to_df(ts) ==
    [i \in 1..Len(ts) |->
        [ID         |-> Cell("str", ts[i].task_id),
         TaskName   |-> Cell("str", ts[i].name),
         Duration   |-> Cell("int", ts[i].duration),
         StartDate  |-> Cell("date", ts[i].start_date),
         EndDate    |-> Cell("date", ts[i].end_date),
         Colour     |-> Cell("str", ts[i].colour),
         Dependency |-> Cell("str", ts[i].dependency)]]

\* hasattr(start, "date"): a Timestamp or datetime has the method, a date,
\* a string or None has not
has_date_method(c) == c.kind = "datetime"

\* start.date(): the day of the timestamp
date_of(c) == Cell("date", c.v \div HoursPerDay)

\* int(x): ValueError for text that is no number, TypeError for None, and a
\* float is truncated
int_raises(c) ==
    CASE c.kind = "str"  -> "ValueError"
      [] c.kind = "none" -> "TypeError"
      [] OTHER           -> ""

int_of(c) == IF c.kind = "float" THEN c.v \div 10 ELSE c.v

\* start + timedelta(days=dur): TypeError unless start is a date
add_raises(c) == IF c.kind = "date" THEN "" ELSE "TypeError"

\* the value kept in a Task for a cell: the day of a date, the text of a
\* string, and the cell itself for any other object
value_of(c) == IF c.kind \in {"date", "str", "int"} THEN c.v ELSE c

\* str(x)
py_str(c) == IF c.kind = "none" THEN <<"N", "o", "n", "e">> ELSE c.v

\* bool(x) of a text cell
truthy(c) == c.kind = "str" /\ c.v # <<>>

\* the body of `for _, row in df.iterrows()`: the Task of the row, or the
\* exception the row raises
\* faulty variant: the stored End Date is trusted
row_to_task_recorded_end(row) ==
    LET start == IF has_date_method(row.StartDate) THEN date_of(row.StartDate)
                 ELSE row.StartDate
    IN  IF int_raises(row.Duration) # "" THEN [error |-> int_raises(row.Duration)]
        ELSE LET dur == int_of(row.Duration)
             IN  IF dur # 0 /\ add_raises(start) # ""
                 THEN [error |-> add_raises(start)]
                 ELSE [error |-> "",
                       task  |-> Task(py_str(row.ID), py_str(row.TaskName), dur,
                                      value_of(start), value_of(row.EndDate),
                                      py_str(row.Colour),
                                      IF truthy(row.Dependency)
                                      THEN py_str(row.Dependency) ELSE <<>>)]

row_to_task(row) ==
    LET start == IF has_date_method(row.StartDate) THEN date_of(row.StartDate)
                 ELSE row.StartDate
    IN  IF int_raises(row.Duration) # "" THEN [error |-> int_raises(row.Duration)]
        ELSE LET dur == int_of(row.Duration)
             IN  IF dur # 0 /\ add_raises(start) # ""
                 THEN [error |-> add_raises(start)]
                 ELSE [error |-> "",
                       task  |-> Task(py_str(row.ID), py_str(row.TaskName), dur,
                                      value_of(start),
                                      IF dur = 0 THEN value_of(start)
                                      ELSE start.v + dur,
                                      py_str(row.Colour),
                                      IF truthy(row.Dependency)
                                      THEN py_str(row.Dependency) ELSE <<>>)]

\* the loop of df_to_tasks: the first row that raises ends the call, and the
\* list built so far is dropped with the frame
RECURSIVE rows_from(_, _, _)
rows_from(df, i, acc) ==
    IF i > Len(df)
    THEN [status |-> "returned", tasks |-> acc, error |-> "", row |-> 0]
    ELSE LET r == row_to_task(df[i])
         IN  IF r.error # ""
             THEN [status |-> "raised", tasks |-> <<>>, error |-> r.error, row |-> i]
             ELSE rows_from(df, i + 1, Append(acc, r.task))

df_to_tasks(df) == rows_from(df, 1, <<>>)

-----------------------------------------------------------------------------
(* The lists a caller may hand to the resolver.  Every task of a list of n  *)
(* has the id create_project gives its position, one of the Spans, and      *)
(* either no reference or a reference to one of the n ids.  The free-text   *)
(* dependency field is written in one of three ways; in a fourth kind of    *)
(* list the last task's end_date is not the one derived from its start.    *)

Pad(s) == <<" ">> \o s \o <<" ">>

Variants(n) ==
    { [none |-> <<>>,            pad |-> FALSE, off |-> 0],   \* plain
      [none |-> <<" ">>,         pad |-> TRUE,  off |-> 0],   \* blanks around the text
      [none |-> FormatId(n + 1), pad |-> FALSE, off |-> 0],   \* an id no task has
      [none |-> <<>>,            pad |-> FALSE, off |-> 1] }  \* stale end_date

Shapes(n) == [span : Spans, ref : 0..n]

DependencyText(ref, v) ==
    IF ref = 0 THEN v.none
    ELSE IF v.pad THEN Pad(FormatId(ref)) ELSE FormatId(ref)

ShapedTask(i, n, sh, v) ==
    LET start == sh.span[1]
        dur   == sh.span[2]
        off   == IF i = n THEN v.off ELSE 0
    IN  Task(FormatId(i), FormatName(i), dur, start, EndFor(start, dur) + off,
             DEFAULT_COLOUR, DependencyText(sh.ref, v))

-----------------------------------------------------------------------------
(* Actions of the resolver specification *)

\* the caller holds either a list to resolve or a task count for a new project
AppIdle ==
    /\ session_tasks = <<>>
    /\ edited_df = <<>>
    /\ show_chart = FALSE
    /\ chart = <<>>
    /\ edits = 0

TabIdle ==
    /\ origin = "none"
    /\ source = <<>>
    /\ table = <<>>
    /\ outcome = NoOutcome
    /\ phase = "idle"

ResolverIdle ==
    /\ input = <<>>
    /\ tasks = <<>>
    /\ pass = 0
    /\ changed = FALSE
    /\ pc = "idle"
    /\ count = -1

Init ==
    /\ AppIdle
    /\ TabIdle
    /\ tasks = <<>>
    /\ pass = 0
    /\ changed = FALSE
    /\ pc = "start"
    /\ \/ /\ count = -1
          /\ today = 0
          /\ \E n \in 0..MaxTasks : \E v \in Variants(n) : \E f \in [1..n -> Shapes(n)] :
                input = [i \in 1..n |-> ShapedTask(i, n, f[i], v)]
       \/ /\ count \in 0..MaxCount
          /\ today \in Todays
          /\ input = <<>>

\* resolve_dependencies(tasks) is entered with the caller's list
CallResolve ==
    /\ pc = "start"
    /\ count = -1
    /\ tasks' = input
    /\ pass' = 0
    /\ changed' = FALSE
    /\ pc' = "loop"
    /\ UNCHANGED <<input, count, today, app_vars, tab_vars>>

\* the caller creates a project and hands it to resolve_dependencies
CreateProject ==
    /\ pc = "start"
    /\ count >= 0
    /\ input' = create_project(count, today)
    /\ tasks' = create_project(count, today)
    /\ pass' = 0
    /\ changed' = FALSE
    /\ pc' = "loop"
    /\ UNCHANGED <<count, today, app_vars, tab_vars>>

\* one iteration of `for _ in range(len(tasks))`, with its `if not changed: break`
Pass ==
    /\ pc = "loop"
    /\ pass < pass_limit(tasks)
    /\ LET r == run_pass(tasks)
       IN  /\ tasks' = r.tasks
           /\ changed' = r.changed
           /\ pc' = IF r.changed THEN "loop" ELSE "done"
    /\ pass' = pass + 1
    /\ UNCHANGED <<input, count, today, app_vars, tab_vars>>

\* the range is exhausted: return tasks
Exhaust ==
    /\ pc = "loop"
    /\ pass >= pass_limit(tasks)
    /\ pc' = "done"
    /\ UNCHANGED <<input, tasks, pass, changed, count, today, app_vars, tab_vars>>

Next == CallResolve \/ CreateProject \/ Pass \/ Exhaust

Spec == Init /\ [][Next]_vars

-----------------------------------------------------------------------------
(* A caller of tasks_to_df and df_to_tasks: it converts a task list to a    *)
(* table and back, or hands df_to_tasks a table of its own.                 *)

DurationCells ==
    {Cell("int", 0), Cell("int", 2), Cell("int", -1), Cell("float", 25),
     Cell("str", <<"x">>)}
StartCells == {Cell("date", 1), Cell("datetime", 30), Cell("str", <<"x">>)}
EndCells == {Cell("date", 1), Cell("date", 9)}
DependencyCells == {Cell("str", FormatId(1)), Cell("none", <<>>)}

RowShapes ==
    [Duration : DurationCells, StartDate : StartCells, EndDate : EndCells,
     Dependency : DependencyCells]

ShapedRow(i, sh) ==
    [ID         |-> Cell("str", FormatId(i)),
     TaskName   |-> Cell("str", FormatName(i)),
     Duration   |-> sh.Duration,
     StartDate  |-> sh.StartDate,
     EndDate    |-> sh.EndDate,
     Colour     |-> Cell("str", DEFAULT_COLOUR),
     Dependency |-> sh.Dependency]

TabInit ==
    /\ ResolverIdle
    /\ AppIdle
    /\ today = 0
    /\ outcome = NoOutcome
    /\ \/ /\ origin = "tasks"
          /\ phase = "source"
          /\ table = <<>>
          /\ \E n \in 0..MaxRows : \E v \in Variants(n) : \E f \in [1..n -> Shapes(n)] :
                source = [i \in 1..n |-> ShapedTask(i, n, f[i], v)]
       \/ /\ origin = "raw"
          /\ phase = "table"
          /\ source = <<>>
          /\ \E n \in 0..MaxRows : \E f \in [1..n -> RowShapes] :
                table = [i \in 1..n |-> ShapedRow(i, f[i])]

TasksToDf ==
    /\ phase = "source"
    /\ table' = tasks_to_df(source)
    /\ phase' = "table"
    /\ UNCHANGED <<resolver_vars, today, app_vars, origin, source, outcome>>

DfToTasks ==
    /\ phase = "table"
    /\ outcome' = df_to_tasks(table)
    /\ phase' = "converted"
    /\ UNCHANGED <<resolver_vars, today, app_vars, origin, source, table>>

TabNext == TasksToDf \/ DfToTasks

TabSpec == TabInit /\ [][TabNext]_vars

-----------------------------------------------------------------------------
(* app.py: one script run per user action.  Each run goes through the       *)
(* sections of the page in order: project setup, task editor, update        *)
(* button, chart display.                                                   *)

\* lines 194-204: the End Date of every row of the edited table is set from
\* its Start Date and Duration
recalculate_end_dates(df) ==
    [i \in 1..Len(df) |->
        LET row   == df[i]
            start == IF has_date_method(row.StartDate) THEN date_of(row.StartDate)
                     ELSE row.StartDate
            dur   == int_of(row.Duration)
        IN  [row EXCEPT !.EndDate =
                IF dur = 0 THEN start ELSE Cell("date", start.v + dur)]]

\* lines 235-240: the chart is drawn from the session's list when show_chart
\* is set and the list is not empty
displayed(show, ts) == IF show /\ ts # <<>> THEN ts ELSE <<>>

\* what the user types into a cell of the editor; ID and End Date are disabled
CellEdits ==
    {<<"Duration", Cell("int", 0)>>, <<"Duration", Cell("int", 3)>>,
     <<"StartDate", Cell("date", 20)>>,
     <<"Dependency", Cell("str", FormatId(1))>>,
     <<"Dependency", Cell("str", Pad(FormatId(2)))>>,
     <<"Dependency", Cell("none", <<>>)>>,
     <<"Colour", Cell("str", "Teal")>>,
     <<"TaskName", Cell("str", <<"P">>)>>}

with_cell(df, r, e) ==
    [df EXCEPT ![r] =
        CASE e[1] = "Duration"   -> [@ EXCEPT !.Duration = e[2]]
          [] e[1] = "StartDate"  -> [@ EXCEPT !.StartDate = e[2]]
          [] e[1] = "Dependency" -> [@ EXCEPT !.Dependency = e[2]]
          [] e[1] = "Colour"     -> [@ EXCEPT !.Colour = e[2]]
          [] e[1] = "TaskName"   -> [@ EXCEPT !.TaskName = e[2]]]

Min(a, b) == IF a < b THEN a ELSE b

AppInit ==
    /\ ResolverIdle
    /\ TabIdle
    /\ AppIdle
    /\ today \in Todays

\* "Create New Project" (lines 123-131), then the editor shows the new table
CreateNewProject ==
    /\ \E task_count \in PROJECT_COMPLEXITIES :
          LET created == create_project(task_count, today)
          IN  /\ session_tasks' = created
              /\ edited_df' = recalculate_end_dates(tasks_to_df(created))
    /\ show_chart' = FALSE
    /\ chart' = <<>>
    /\ UNCHANGED <<resolver_vars, today, edits, tab_vars>>

\* the user changes one cell of the editor (lines 184-204); the chart, when
\* shown, is drawn again from the session's list
EditCell ==
    /\ session_tasks # <<>>
    /\ edits < MaxEdits
    /\ \E r \in 1..Min(Len(edited_df), MaxEditRow), e \in CellEdits :
          edited_df' = recalculate_end_dates(with_cell(edited_df, r, e))
    /\ edits' = edits + 1
    /\ chart' = displayed(show_chart, session_tasks)
    /\ UNCHANGED <<resolver_vars, today, session_tasks, show_chart, tab_vars>>

\* "Update Gantt Chart" (lines 212-216), then the chart display (235-240)
UpdateGanttChart ==
    /\ session_tasks # <<>>
    /\ LET converted == df_to_tasks(recalculate_end_dates(edited_df)).tasks
       IN  /\ session_tasks' = converted
           /\ chart' = displayed(TRUE, converted)
    /\ show_chart' = TRUE
    /\ UNCHANGED <<resolver_vars, today, edited_df, edits, tab_vars>>

AppNext == CreateNewProject \/ EditCell \/ UpdateGanttChart

AppSpec == AppInit /\ [][AppNext]_vars

-----------------------------------------------------------------------------
(* Vocabulary of the properties *)

\* task b's whitespace-stripped dependency is the id of task a
Names(ts, b, a) == Strip(ts[b].dependency) = ts[a].task_id

\* the dependency of task b names some task of the list
Resolves(ts, b) == \E a \in 1..Len(ts) : Names(ts, b, a)

UniqueIds(ts) ==
    \A i, j \in 1..Len(ts) : ts[i].task_id = ts[j].task_id => i = j

\* the task b depends on (0 when its dependency names none); ids unique
Predecessor(ts, b) ==
    IF Resolves(ts, b) THEN CHOOSE a \in 1..Len(ts) : Names(ts, b, a) ELSE 0

\* the task reached from b by following k dependency links (0: the chain ended)
RECURSIVE Ancestor(_, _, _)
Ancestor(ts, b, k) ==
    IF b = 0 \/ k = 0 THEN b ELSE Ancestor(ts, Predecessor(ts, b), k - 1)

\* no dependency cycle: every chain of links ends within Len(ts) steps
Acyclic(ts) == \A b \in 1..Len(ts) : Ancestor(ts, b, Len(ts)) = 0

\* the number of links from b to the root of its chain
RECURSIVE Depth(_, _)
Depth(ts, b) == IF Predecessor(ts, b) = 0 THEN 0 ELSE 1 + Depth(ts, Predecessor(ts, b))

\* the end_date derivation rule of the data model
DerivedEnd(t) == IF t.duration = 0 THEN t.start_date ELSE t.start_date + t.duration

RuleHolds(ts) == \A i \in 1..Len(ts) : ts[i].end_date = DerivedEnd(ts[i])

Returned == pc = "done"

-----------------------------------------------------------------------------
(* C1: for a list with unique ids and no dependency cycle, when             *)
(* resolve_dependencies returns, every task B whose stripped dependency     *)
(* names a task A starts on A's end date, whatever the list order and       *)
(* whatever B's start date was.                                             *)
C1_DependentsStartAtPredecessorEnd ==
    (Returned /\ UniqueIds(input) /\ Acyclic(input)) =>
        \A b, a \in 1..Len(tasks) :
            Names(tasks, b, a) => tasks[b].start_date = tasks[a].end_date

\* a chain of two links listed back to front, written with blanks, whose
\* dependents did not start on their predecessors' end dates
C1_Witness ==
    /\ Returned /\ Len(input) = 3 /\ Acyclic(input)
    /\ Names(input, 1, 2) /\ Names(input, 2, 3)
    /\ input[1].dependency # input[2].task_id
    /\ input[1].start_date # input[2].end_date
    /\ input[2].start_date # input[3].end_date
    /\ tasks[1].start_date # input[1].start_date

-----------------------------------------------------------------------------
(* C2 as stated: every returned task, for any input list, has the end_date  *)
(* derived from its start_date and duration, and a milestone whose          *)
(* dependency resolves has start_date = end_date = predecessor's end_date.  *)
C2_AnyInputEndDerived ==
    Returned =>
        /\ RuleHolds(tasks)
        /\ \A b, a \in 1..Len(tasks) :
              (tasks[b].duration = 0 /\ Names(tasks, b, a)) =>
                  /\ tasks[b].start_date = tasks[b].end_date
                  /\ tasks[b].end_date = tasks[a].end_date

(* C2 amended: for any input list whose tasks satisfy the derivation rule   *)
(* on entry, every returned task satisfies it; a milestone whose dependency *)
(* resolves has start_date = end_date, and both equal its predecessor's     *)
(* end_date when the ids are unique and the links contain no cycle.         *)
C2_EndDerivedFromRuleAbidingInput ==
    (Returned /\ RuleHolds(input)) =>
        /\ RuleHolds(tasks)
        /\ \A b, a \in 1..Len(tasks) :
              (tasks[b].duration = 0 /\ Names(tasks, b, a)) =>
                  /\ tasks[b].start_date = tasks[b].end_date
                  /\ (UniqueIds(input) /\ Acyclic(input)) =>
                        tasks[b].end_date = tasks[a].end_date

\* a milestone and a task of positive duration were both moved by resolution
C2_Witness ==
    /\ Returned /\ RuleHolds(input) /\ Acyclic(input)
    /\ \E b, c \in 1..Len(tasks) :
          /\ tasks[b].duration = 0 /\ Resolves(tasks, b)
          /\ tasks[b].start_date # input[b].start_date
          /\ tasks[c].duration > 0 /\ Resolves(tasks, c)
          /\ tasks[c].start_date # input[c].start_date

-----------------------------------------------------------------------------
(* C3 as stated: for any task collection, calling resolve_dependencies on   *)
(* the result of a first call changes no task.                              *)
C3_IdempotentOnAnyInput ==
    Returned => resolve_dependencies(tasks) = tasks

(* C3 amended: for any task collection with unique ids whose dependency     *)
(* links contain no cycle, calling resolve_dependencies on the result of a  *)
(* first call changes no task's start_date or end_date.                     *)
C3_IdempotentOnAcyclicInput ==
    (Returned /\ UniqueIds(input) /\ Acyclic(input)) =>
        resolve_dependencies(tasks) = tasks

\* the first call needed every pass it is allowed, on an acyclic list
C3_Witness ==
    /\ Returned /\ Acyclic(input) /\ Len(input) = 3
    /\ pass = 3 /\ tasks # input
    /\ \E b \in 1..3 : Depth(input, b) = 2

-----------------------------------------------------------------------------
(* C4: resolve_dependencies terminates on every input, cycles and           *)
(* self-dependencies included: it executes at most N passes, N the number   *)
(* of tasks, and stops at the first pass in which no start_date changed.    *)
(* Termination is bounded progress: the pass count never exceeds N, and     *)
(* every step of the loop either returns or adds one to the pass count (the *)
(* guards of Pass and Exhaust, pass < N and pass >= N, leave no state of    *)
(* the loop without a step).                                                *)
Starts(ts) == [i \in 1..Len(ts) |-> ts[i].start_date]

C4_PassBound == pass <= Len(tasks)

\* the loop goes on only after a pass that changed something, and returns
\* after a stable pass or after the N-th
C4_ExitReason ==
    /\ (pc = "loop" /\ pass > 0) => changed
    /\ Returned => (pass = Len(tasks) \/ ~changed)

\* a step of the loop returns or counts one more pass
C4_Progress == pc = "loop" => (pc' = "done" \/ pass' = pass + 1)

\* a pass ends the loop exactly when it changed no start_date
C4_StopsAtStablePass ==
    (pc = "loop" /\ pass' = pass + 1) =>
        ((pc' = "done") <=> (Starts(tasks') = Starts(tasks)))

C4_TerminatesWithinNPasses ==
    /\ [](C4_PassBound /\ C4_ExitReason)
    /\ [][C4_Progress /\ C4_StopsAtStablePass]_vars

\* a self-dependent task kept the loop running to the bound
C4_Witness ==
    /\ Returned /\ Len(input) = 3 /\ pass = 3 /\ changed
    /\ \E b \in 1..3 : Names(input, b, b)

-----------------------------------------------------------------------------
(* C5: a task whose dependency is empty, or names an id that no task in the *)
(* list has, keeps the start_date and end_date it was given, in every pass  *)
(* and in the returned list.                                                *)
C5_UnresolvedTasksKeepDates ==
    \A i \in 1..Len(tasks) :
        (input[i].dependency = <<>> \/ ~Resolves(input, i)) =>
            /\ tasks[i].start_date = input[i].start_date
            /\ tasks[i].end_date = input[i].end_date

\* a task naming an id no task has is returned beside a task that resolution
\* moved in a second pass
C5_Witness ==
    /\ Returned /\ pass >= 2
    /\ \E i, k \in 1..Len(tasks) :
          /\ Strip(input[i].dependency) # <<>>
          /\ ~Resolves(input, i)
          /\ tasks[k].start_date # input[k].start_date

-----------------------------------------------------------------------------
(* C6 as stated: for any acyclic list with unique ids, every permutation of *)
(* the list yields the same final start_date and end_date for each id.      *)
Permute(ts, p) == [k \in 1..Len(ts) |-> ts[p[k]]]

\* resolving the list in order p gives every task of `ts` the dates in `out`
SameDatesInOrder(ts, p, out) ==
    LET r == resolve_dependencies(Permute(ts, p))
    IN  \A k \in 1..Len(ts) :
            /\ r[k].task_id = out[p[k]].task_id
            /\ r[k].start_date = out[p[k]].start_date
            /\ r[k].end_date = out[p[k]].end_date

-----------------------------------------------------------------------------
(* C10: create_project(n) returns exactly n tasks for every n >= 0, with    *)
(* pairwise distinct sequential ids in list order, the default duration,    *)
(* an empty dependency, the default colour and end_date - start_date equal  *)
(* to the duration; resolve_dependencies of the empty list returns the      *)
(* empty list.                                                              *)
DigitValue(c) == CHOOSE d \in 0..9 : Digit(d) = c

RECURSIVE NumberOf(_)
NumberOf(s) ==
    IF s = <<>> THEN 0
    ELSE 10 * NumberOf(SubSeq(s, 1, Len(s) - 1)) + DigitValue(s[Len(s)])

\* the id is "T-" followed by the decimal number k in at least three digits
IsIdNumber(id, k) ==
    /\ Len(id) >= 5 /\ id[1] = "T" /\ id[2] = "-"
    /\ NumberOf(SubSeq(id, 3, Len(id))) = k

C10_CreateProject ==
    /\ (count >= 0 /\ pc # "start") =>
          /\ Len(input) = count
          /\ UniqueIds(input)
          /\ \A i \in 1..Len(input) :
                /\ IsIdNumber(input[i].task_id, i)
                /\ input[i].duration = DEFAULT_DURATION_DAYS
                /\ input[i].dependency = <<>>
                /\ input[i].colour = DEFAULT_COLOUR
                /\ input[i].end_date - input[i].start_date = input[i].duration
    /\ (Returned /\ input = <<>>) => tasks = <<>>

\* a project of several tasks was created and resolved
C10_Witness == Returned /\ count >= 2 /\ Len(tasks) = count

-----------------------------------------------------------------------------
(* C7: after "Update Gantt Chart", the session task list from which         *)
(* build_chart renders has passed through the resolver: every task B with   *)
(* a resolvable dependency on A starts on A's end date (acyclic case).      *)
C7_ChartIsResolved ==
    (show_chart /\ chart # <<>> /\ UniqueIds(chart) /\ Acyclic(chart)) =>
        \A b, a \in 1..Len(chart) :
            Names(chart, b, a) => chart[b].start_date = chart[a].end_date

-----------------------------------------------------------------------------
(* C8: df_to_tasks is atomic and validating: if any row has a duration that *)
(* is not an integer >= 0 or a start date that is not a date, the call      *)
(* fails with a ValidationError and returns no task list; no malformed row  *)
(* is converted into a Task.                                                *)
RowWellTyped(row) ==
    /\ row.Duration.kind = "int"
    /\ row.StartDate.kind \in {"date", "datetime"}

RowValid(row) == RowWellTyped(row) /\ row.Duration.v >= 0

C8_AtomicValidation ==
    (phase = "converted" /\ \E i \in 1..Len(table) : ~RowValid(table[i])) =>
        /\ outcome.status = "raised"
        /\ outcome.error = "ValidationError"
        /\ outcome.tasks = <<>>

-----------------------------------------------------------------------------
(* C9: tasks_to_df preserves row order and every field;                     *)
(* df_to_tasks(tasks_to_df(ts)) = ts for every list whose tasks satisfy the *)
(* end_date derivation rule; for any table, df_to_tasks sets each task's    *)
(* end_date from the row's Start Date and Duration, never from the row's    *)
(* stored End Date.                                                         *)
RowShows(row, t) ==
    /\ row.ID = Cell("str", t.task_id)
    /\ row.TaskName = Cell("str", t.name)
    /\ row.Duration = Cell("int", t.duration)
    /\ row.StartDate = Cell("date", t.start_date)
    /\ row.EndDate = Cell("date", t.end_date)
    /\ row.Colour = Cell("str", t.colour)
    /\ row.Dependency = Cell("str", t.dependency)

row_has_date(row) == row.StartDate.kind \in {"date", "datetime"}

\* the day of a row's Start Date and the whole days of its Duration
RowDay(row) ==
    IF row.StartDate.kind = "datetime" THEN row.StartDate.v \div 24
    ELSE row.StartDate.v

RowDays(row) ==
    IF row.Duration.kind = "float" THEN row.Duration.v \div 10 ELSE row.Duration.v

C9_TabularRoundTrip ==
    /\ (origin = "tasks" /\ phase \in {"table", "converted"}) =>
          /\ Len(table) = Len(source)
          /\ \A i \in 1..Len(source) : RowShows(table[i], source[i])
    /\ (origin = "tasks" /\ phase = "converted" /\ RuleHolds(source)) =>
          /\ outcome.status = "returned"
          /\ outcome.tasks = source
    /\ (phase = "converted" /\ outcome.status = "returned") =>
          /\ Len(outcome.tasks) = Len(table)
          /\ \A i \in 1..Len(table) :
                row_has_date(table[i]) =>
                    outcome.tasks[i].end_date =
                        IF RowDays(table[i]) = 0 THEN RowDay(table[i])
                        ELSE RowDay(table[i]) + RowDays(table[i])

\* a list of two rule-abiding tasks, one depending on the other, came back
\* from the table unchanged
C9_Witness ==
    /\ origin = "tasks" /\ phase = "converted"
    /\ Len(source) = 2 /\ RuleHolds(source)
    /\ Names(source, 2, 1)
    /\ source[1].duration = 0 /\ source[2].duration > 0
    /\ outcome.tasks = source

-----------------------------------------------------------------------------------------------------------------------------------------------------
(* Cycles of dependency links *)

\* following the links from task c for at most k steps leads to task b
RECURSIVE ComesBack(_, _, _, _)
ComesBack(ts, b, c, k) ==
    /\ k > 0
    /\ LET p == Predecessor(ts, c)
       IN  p # 0 /\ (p = b \/ ComesBack(ts, b, p, k - 1))

\* task b is reached again by following its own dependency links
OnCycle(ts, b) == ComesBack(ts, b, b, Len(ts))

\* some cycle of links passes through a task that takes time
CycleTakesTime(ts) ==
    \E b \in 1..Len(ts) : ts[b].duration > 0 /\ OnCycle(ts, b)

NoNegativeDuration(ts) == \A i \in 1..Len(ts) : ts[i].duration >= 0

\* some executed pass changed no start_date, or the call returned before
\* the N-th pass
SomePassStable ==
    \/ pass > 0 /\ ~changed
    \/ Returned /\ pass # Len(tasks)

(* C11 as stated: whenever the input contains a dependency cycle (a task    *)
(* depending on itself included), no pass of resolve_dependencies is        *)
(* stable: the loop never exits early and executes exactly N passes.        *)
(* Read from the other end: a stable pass or an early return is seen only   *)
(* on an input without a cycle.                                             *)
C11_AnyCycleNeverStable ==
    SomePassStable => Acyclic(input)

(* C11 amended: whenever the input has unique ids, no negative duration,    *)
(* end dates that satisfy the derivation rule, and a dependency cycle       *)
(* through at least one task of positive duration (a task depending on      *)
(* itself included), no pass of resolve_dependencies is stable: the loop    *)
(* never exits early and executes exactly N passes, returning the dates the *)
(* N-th pass produced.  A cycle of milestones only is stable as soon as its *)
(* tasks share one date.  Read from the other end: a stable pass or an      *)
(* early return is seen only on an input without such a cycle.              *)
C11_CycleThatTakesTimeNeverStable ==
    SomePassStable =>
        ~(RuleHolds(input) /\ NoNegativeDuration(input) /\ UniqueIds(input)
            /\ CycleTakesTime(input))

\* two tasks depending on each other, one of them taking time, beside a
\* third: the call returned after three passes that all changed a date
C11_Witness ==
    /\ Returned /\ Len(input) = 3 /\ RuleHolds(input)
    /\ Names(input, 1, 2) /\ Names(input, 2, 1)
    /\ OnCycle(input, 1) /\ CycleTakesTime(input)
    /\ input[1].duration > 0 /\ input[2].duration = 0
    /\ pass = 3 /\ changed
    /\ tasks[1].start_date # input[1].start_date

-----------------------------------------------------------------------------
(* C12: the pass count depends on the list order.  Within a pass the tasks  *)
(* are visited in list order and see the updates made earlier in the same   *)
(* pass, so when every predecessor is listed before its dependents at most  *)
(* the first pass changes a date and the second pass is stable; in any      *)
(* order, and so for a chain listed back to front, the task at depth d from *)
(* the root of its chain has its final dates no later than pass d, so a     *)
(* chain of k links needs at most k date-changing passes, and can need k    *)
(* (plus one stable pass).                                                  *)
FrontToBack(ts) == \A b \in 1..Len(ts) : Predecessor(ts, b) < b

BackToFront(ts) ==
    \A b \in 1..Len(ts) : Predecessor(ts, b) = 0 \/ Predecessor(ts, b) > b

\* a second pass changed a date, or a third pass was executed
ChangeAfterFirstPass == (pass = 2 /\ changed) \/ pass > 2

\* that happens only when some predecessor is listed after its dependent
C12_FrontToBackOnePass ==
    ChangeAfterFirstPass => ~(UniqueIds(input) /\ FrontToBack(input))

\* this step changes a date of task b
Moves(b) ==
    \/ tasks'[b].start_date # tasks[b].start_date
    \/ tasks'[b].end_date # tasks[b].end_date

\* a task moved by pass number pass + 1 lies deeper than `pass` links: from
\* pass d on, a task at depth d keeps its dates
C12_FinalByDepth ==
    \A b \in 1..Len(tasks) :
        (Moves(b) /\ UniqueIds(input) /\ Acyclic(input)) => Depth(input, b) > pass

C12_PassCountFollowsListOrder ==
    /\ []C12_FrontToBackOnePass
    /\ [][C12_FinalByDepth]_vars

\* a chain of two links listed back to front took two passes that changed a
\* date and a third that was stable
C12_Witness ==
    /\ Returned /\ Len(input) = 3 /\ BackToFront(input)
    /\ Names(input, 1, 2) /\ Names(input, 2, 3) /\ ~Resolves(input, 3)
    /\ Depth(input, 1) = 2
    /\ pass = 3 /\ ~changed
    /\ tasks[1].start_date # input[1].start_date
    /\ tasks[2].start_date # input[2].start_date

-----
(* C13: resolve_dependencies changes nothing but dates: in every pass and   *)
(* in the returned list, for every input, the list has the length and order *)
(* it was given with and every task keeps its id, name, duration, colour    *)
(* and dependency; the returned list is the value of a function of the      *)
(* input list alone (resolve_dependencies reads no clock and no other       *)
(* state), so equal inputs give equal outputs.                              *)
SameButDates(t, u) ==
    /\ t.task_id = u.task_id
    /\ t.name = u.name
    /\ t.duration = u.duration
    /\ t.colour = u.colour
    /\ t.dependency = u.dependency

\* the list in every pass: the input's tasks in the input's order
C13_SameTasks ==
    pc # "start" =>
        /\ Len(tasks) = Len(input)
        /\ \A i \in 1..Len(input) : SameButDates(tasks[i], input[i])

\* the returned list is a function of the input list
C13_FunctionOfInput == Returned => tasks = resolve_dependencies(input)

\* a step of the loop leaves the clock, the session and the caller's tables
\* as they were
C13_NoOtherEffect ==
    pc = "loop" => UNCHANGED <<input, count, today, app_vars, tab_vars>>

C13_OnlyDatesChange ==
    /\ [](C13_SameTasks /\ C13_FunctionOfInput)
    /\ [][C13_NoOtherEffect]_vars

\* a task whose reference is written with blanks around it was moved, and
\* is returned with the reference as it was written
C13_Witness ==
    /\ Returned /\ Len(input) = 3 /\ pass >= 2
    /\ \E b, a \in 1..3 :
          /\ a # b /\ Names(input, b, a)
          /\ input[b].dependency = Pad(input[a].task_id)
          /\ tasks[b].dependency = input[b].dependency
          /\ tasks[b].start_date # input[b].start_date
          /\ tasks[b].end_date # input[b].end_date

====
